---------------------------- MODULE Spec2Model ----------------------------
(* Model of the HKX header analyser, src/analyze_hkx.py.                   *)
(* A file is a sequence of bytes (0..255); byte offsets are 0-based as in  *)
(* the source, so the byte at offset i of data is data[i + 1].             *)
EXTENDS Integers, Sequences, FiniteSets, TLC

VARIABLES file, io, info, pc, issues, dir, results, outs, summary

vars == <<file, io, info, pc, issues, dir, results, outs, summary>>

(* ---------------------------------------------------------------------- *)
(* Byte strings                                                           *)
(* ---------------------------------------------------------------------- *)

\* The characters used in the source's literals, with the ASCII code of
\* the first character of each run.
Runs == <<<<" ", 32>>, <<"()", 40>>, <<",-./0123456789", 44>>,
          <<"ABCDEFGHIJKLMNOPQRSTUVWXYZ", 65>>, <<"_", 95>>,
          <<"abcdefghijklmnopqrstuvwxyz", 97>>>>

\* ASCII code of the i-th character of the string literal s.
Ord(s, i) ==
    LET c == SubSeq(s, i, i)
        r == CHOOSE r \in 1..Len(Runs) :
                 \E k \in 1..Len(Runs[r][1]) : SubSeq(Runs[r][1], k, k) = c
        k == CHOOSE k \in 1..Len(Runs[r][1]) : SubSeq(Runs[r][1], k, k) = c
    IN  Runs[r][2] + k - 1

\* A bytes literal of printable characters as a sequence of byte values.
Bytes(s) == [i \in 1..Len(s) |-> Ord(s, i)]

Min(S) == CHOOSE m \in S : \A n \in S : m <= n

SmallerOf(a, b) == IF a <= b THEN a ELSE b

\* data[a:b]: Python slicing, clamped to the length of data.
Slice(data, a, b) == SubSeq(data, a + 1, SmallerOf(b, Len(data)))

\* pat occurs in data at offset i.
MatchAt(data, pat, i) ==
    /\ i + Len(pat) <= Len(data)
    /\ \A j \in 1..Len(pat) : data[i + j] = pat[j]

\* data.find(pat, start, end): lowest offset of an occurrence of pat lying
\* inside data[start:end], or -1.
find(data, pat, start, end) ==
    LET lim == SmallerOf(end, Len(data))
        hits == {i \in start..(lim - Len(pat)) : MatchAt(data, pat, i)}
    IN  IF hits = {} THEN -1 ELSE Min(hits)

\* pat in data, for a pattern that is not empty: an occurrence starts
\* where the first byte of pat stands.
Contains(data, pat) ==
    LET first == pat[1]
    IN  \E i \in 0..(Len(data) - Len(pat)) :
            data[i + 1] = first /\ MatchAt(data, pat, i)

\* bytes.decode("ascii", errors="replace"): every byte that is not ASCII
\* becomes U+FFFD.
decode(bs) == [i \in 1..Len(bs) |-> IF bs[i] < 128 THEN bs[i] ELSE 65533]

\* A 32-bit unsigned value, held as its two 16-bit halves.
Word(n) == [hi |-> n \div 65536, lo |-> n % 65536]

\* unpack_I reading the four bytes big-endian (">I").
unpack_I_big(data, off) ==
    [hi |-> data[off + 2] + 256 * data[off + 1],
     lo |-> data[off + 4] + 256 * data[off + 3]]

\* struct.unpack_from("<I", data, off)[0]
unpack_I(data, off) ==
    [hi |-> data[off + 3] + 256 * data[off + 4],
     lo |-> data[off + 1] + 256 * data[off + 2]]

HexDigit(d) == IF d < 10 THEN 48 + d ELSE 55 + d

Hex4(h) == <<HexDigit(h \div 4096), HexDigit((h \div 256) % 16),
             HexDigit((h \div 16) % 16), HexDigit(h % 16)>>

\* f"{v:08X}"
Hex8(v) == Hex4(v.hi) \o Hex4(v.lo)

(* ---------------------------------------------------------------------- *)
(* Tables                                                                 *)
(* ---------------------------------------------------------------------- *)

HKX_MAGIC_LE == <<87, 224, 224, 87, 16, 192, 192, 16>>

READ_MAX == 65536

MIN_SIZE == 64

hk2014 == Bytes("hk2014 (Skyrim SE)")
hk2016 == Bytes("hk2016")
hk2018 == Bytes("hk2018 (Elden Ring / DS3)")
hk2020 == Bytes("hk2020")

\* 0x0B000000, 0x0D000000, 0x0E000000, 0x10000000
HAVOK_VERSIONS ==
    (184549376 :> hk2014) @@ (218103808 :> hk2016) @@
    (234881024 :> hk2018) @@ (268435456 :> hk2020)

hkaAnimationContainer == Bytes("hkaAnimationContainer")
hkaSplineCompressedAnimation == Bytes("hkaSplineCompressedAnimation")
hkaInterleavedUncompressedAnimation == Bytes("hkaInterleavedUncompressedAnimation")
hkaAnimationBinding == Bytes("hkaAnimationBinding")
hkaSkeleton == Bytes("hkaSkeleton")
hkaSkeletonMapper == Bytes("hkaSkeletonMapper")
hkRootLevelContainer == Bytes("hkRootLevelContainer")

ER_CLASSNAME_SIGNATURES ==
    <<hkaAnimationContainer, hkaSplineCompressedAnimation,
      hkaInterleavedUncompressedAnimation, hkaAnimationBinding,
      hkaSkeleton, hkaSkeletonMapper, hkRootLevelContainer>>

VERSION_PATTERNS == <<Bytes("hk_"), Bytes("Havok-"), Bytes("hkVersionUtil")>>

NoError == "None"
ErrUnreadable == "Cannot read file"
ErrTooSmall == "File too small to be a valid HKX"
ErrNoHeader == "No valid HKX header or Havok class signatures found"

unknown == Bytes("unknown")
headerless == Bytes("unknown (headerless, classes detected)")

\* f"unknown (0x{version_candidate:08X})"
unknown_hex(v) == Bytes("unknown (0x") \o Hex8(v) \o Bytes(")")


(* ---------------------------------------------------------------------- *)
(* HKXInfo                                                                *)
(* ---------------------------------------------------------------------- *)

\* The fields set by HKXInfo.__init__ before it calls _parse.
new_info(filesize) ==
    [filesize |-> filesize,
     valid |-> FALSE,
     error |-> NoError,
     endianness |-> "unknown",
     havok_version_raw |-> 0,
     havok_version_str |-> unknown,
     user_tag |-> Word(0),
     num_sections |-> 0,
     content_version_string |-> <<>>,
     detected_classes |-> <<>>,
     has_animation |-> FALSE,
     has_skeleton |-> FALSE,
     has_binding |-> FALSE,
     compression_type |-> "unknown"]

\* range(0, stop, step)
range(stop, step) == {o \in 0..(stop - 1) : o % step = 0}

\* v in HAVOK_VERSIONS
is_known_version(v) == \E k \in DOMAIN HAVOK_VERSIONS : Word(k) = v

version_key(v) == CHOOSE k \in DOMAIN HAVOK_VERSIONS : Word(k) = v

\* scan_class with the Mapper test of the skeleton branch inverted.
scan_class_mapper(self, data, sig) ==
    IF ~Contains(data, sig) THEN self
    ELSE
      LET class_name == decode(sig)
          is_anim == /\ Contains(class_name, Bytes("Animation"))
                     /\ ~Contains(class_name, Bytes("Container"))
          is_skel == /\ ~is_anim
                     /\ Contains(class_name, Bytes("Skeleton"))
                     /\ Contains(class_name, Bytes("Mapper"))
          is_bind == /\ ~is_anim
                     /\ ~is_skel
                     /\ Contains(class_name, Bytes("Binding"))
      IN  [self EXCEPT
             !.detected_classes = Append(@, class_name),
             !.has_animation = IF is_anim THEN TRUE ELSE @,
             !.compression_type =
                 IF is_anim /\ Contains(class_name, Bytes("Spline")) THEN "spline"
                 ELSE IF is_anim /\ Contains(class_name, Bytes("Interleaved"))
                      THEN "interleaved"
                 ELSE @,
             !.has_skeleton = IF is_skel THEN TRUE ELSE @,
             !.has_binding = IF is_bind THEN TRUE ELSE @]

\* scan_class without the Container test of the animation branch.
scan_class_any_animation(self, data, sig) ==
    IF ~Contains(data, sig) THEN self
    ELSE
      LET class_name == decode(sig)
          is_anim == Contains(class_name, Bytes("Animation"))
          is_skel == /\ ~is_anim
                     /\ Contains(class_name, Bytes("Skeleton"))
                     /\ ~Contains(class_name, Bytes("Mapper"))
          is_bind == /\ ~is_anim
                     /\ ~is_skel
                     /\ Contains(class_name, Bytes("Binding"))
      IN  [self EXCEPT
             !.detected_classes = Append(@, class_name),
             !.has_animation = IF is_anim THEN TRUE ELSE @,
             !.compression_type =
                 IF is_anim /\ Contains(class_name, Bytes("Spline")) THEN "spline"
                 ELSE IF is_anim /\ Contains(class_name, Bytes("Interleaved"))
                      THEN "interleaved"
                 ELSE @,
             !.has_skeleton = IF is_skel THEN TRUE ELSE @,
             !.has_binding = IF is_bind THEN TRUE ELSE @]

\* scan_class keeping the first compression type it has set.
scan_class_first_wins(self, data, sig) ==
    IF ~Contains(data, sig) THEN self
    ELSE
      LET class_name == decode(sig)
          is_anim == /\ Contains(class_name, Bytes("Animation"))
                     /\ ~Contains(class_name, Bytes("Container"))
          is_skel == /\ ~is_anim
                     /\ Contains(class_name, Bytes("Skeleton"))
                     /\ ~Contains(class_name, Bytes("Mapper"))
          is_bind == /\ ~is_anim
                     /\ ~is_skel
                     /\ Contains(class_name, Bytes("Binding"))
      IN  [self EXCEPT
             !.detected_classes = Append(@, class_name),
             !.has_animation = IF is_anim THEN TRUE ELSE @,
             !.compression_type =
                 IF @ # "unknown" THEN @
                 ELSE IF is_anim /\ Contains(class_name, Bytes("Spline")) THEN "spline"
                 ELSE IF is_anim /\ Contains(class_name, Bytes("Interleaved"))
                      THEN "interleaved"
                 ELSE @,
             !.has_skeleton = IF is_skel THEN TRUE ELSE @,
             !.has_binding = IF is_bind THEN TRUE ELSE @]

\* scan_class taking a signature as found only where no letter follows it.
scan_class_whole_name(self, data, sig) ==
    LET letters == (65..90) \cup (97..122)
        whole == \E o \in 0..(Len(data) - Len(sig)) :
                    /\ MatchAt(data, sig, o)
                    /\ \/ o + Len(sig) = Len(data)
                       \/ data[o + Len(sig) + 1] \notin letters
    IN
    IF ~whole THEN self
    ELSE
      LET class_name == decode(sig)
          is_anim == /\ Contains(class_name, Bytes("Animation"))
                     /\ ~Contains(class_name, Bytes("Container"))
          is_skel == /\ ~is_anim
                     /\ Contains(class_name, Bytes("Skeleton"))
                     /\ ~Contains(class_name, Bytes("Mapper"))
          is_bind == /\ ~is_anim
                     /\ ~is_skel
                     /\ Contains(class_name, Bytes("Binding"))
      IN  [self EXCEPT
             !.detected_classes = Append(@, class_name),
             !.has_animation = IF is_anim THEN TRUE ELSE @,
             !.compression_type =
                 IF is_anim /\ Contains(class_name, Bytes("Spline")) THEN "spline"
                 ELSE IF is_anim /\ Contains(class_name, Bytes("Interleaved"))
                      THEN "interleaved"
                 ELSE @,
             !.has_skeleton = IF is_skel THEN TRUE ELSE @,
             !.has_binding = IF is_bind THEN TRUE ELSE @]

\* One iteration of the loop of _scan_classes, for the signature sig.
scan_class(self, data, sig) ==
    IF ~Contains(data, sig) THEN self
    ELSE
      LET class_name == decode(sig)
          is_anim == /\ Contains(class_name, Bytes("Animation"))
                     /\ ~Contains(class_name, Bytes("Container"))
          is_skel == /\ ~is_anim
                     /\ Contains(class_name, Bytes("Skeleton"))
                     /\ ~Contains(class_name, Bytes("Mapper"))
          is_bind == /\ ~is_anim
                     /\ ~is_skel
                     /\ Contains(class_name, Bytes("Binding"))
      IN  [self EXCEPT
             !.detected_classes = Append(@, class_name),
             !.has_animation = IF is_anim THEN TRUE ELSE @,
             !.compression_type =
                 IF is_anim /\ Contains(class_name, Bytes("Spline")) THEN "spline"
                 ELSE IF is_anim /\ Contains(class_name, Bytes("Interleaved"))
                      THEN "interleaved"
                 ELSE @,
             !.has_skeleton = IF is_skel THEN TRUE ELSE @,
             !.has_binding = IF is_bind THEN TRUE ELSE @]

RECURSIVE scan_classes_from(_, _, _)
scan_classes_from(self, data, k) ==
    IF k > Len(ER_CLASSNAME_SIGNATURES) THEN self
    ELSE scan_classes_from(scan_class(self, data, ER_CLASSNAME_SIGNATURES[k]),
                           data, k + 1)

\* HKXInfo._scan_classes
scan_classes(self, data) == scan_classes_from(self, data, 1)

\* scan_version_string_from stopping at the first pattern that occurs in
\* data, whether or not its occurrence is terminated.
scan_version_string_first_found(self, data, k) ==
    LET found == {j \in k..Len(VERSION_PATTERNS) :
                    find(data, VERSION_PATTERNS[j], 0, Len(data)) >= 0}
        idx == find(data, VERSION_PATTERNS[Min(found)], 0, Len(data))
        end == find(data, <<0>>, idx, idx + 64)
    IN  IF found # {} /\ end > idx
        THEN [self EXCEPT
                !.content_version_string = decode(Slice(data, idx, end))]
        ELSE self

\* HKXInfo._scan_version_string: the first pattern that occurs in data and
\* has a NUL within 64 bytes of its first occurrence supplies the string.
RECURSIVE scan_version_string_from(_, _, _)
scan_version_string_from(self, data, k) ==
    IF k > Len(VERSION_PATTERNS) THEN self
    ELSE
      LET idx == find(data, VERSION_PATTERNS[k], 0, Len(data))
          end == IF idx >= 0 THEN find(data, <<0>>, idx, idx + 64) ELSE -1
      IN  IF idx >= 0 /\ end > idx
          THEN [self EXCEPT
                  !.content_version_string = decode(Slice(data, idx, end))]
          ELSE scan_version_string_from(self, data, k + 1)

scan_version_string(self, data) == scan_version_string_from(self, data, 1)

\* tagfile_version_str testing 2014 before 2018.
tagfile_version_str_2014_first(cvs, old) ==
    IF Contains(cvs, Bytes("2014")) THEN hk2014
    ELSE IF Contains(cvs, Bytes("2018")) THEN hk2018
    ELSE IF Contains(cvs, Bytes("2016")) THEN hk2016
    ELSE old

\* The label chosen from the version string of a tagfile.
tagfile_version_str(cvs, old) ==
    IF Contains(cvs, Bytes("2018")) THEN hk2018
    ELSE IF Contains(cvs, Bytes("2014")) THEN hk2014
    ELSE IF Contains(cvs, Bytes("2016")) THEN hk2016
    ELSE old

\* is_tagfile accepting the lower-case marker only.
is_tagfile_lower(data) == Slice(data, 0, 3) = Bytes("hk_")

\* The tagfile test of _parse_alternative_header.
is_tagfile(data) ==
    \/ Slice(data, 0, 3) = Bytes("hk_")
    \/ Slice(data, 0, 3) = Bytes("HK_")

\* magic_scan_offsets without the alignment step.
magic_scan_offsets_unaligned(data) == range(SmallerOf(256, Len(data) - 8), 1)

\* The offsets at which _parse_alternative_header looks for the magic.
magic_scan_offsets(data) == range(SmallerOf(256, Len(data) - 8), 4)

\* The loop over the offsets: the magic was found at one of them.
magic_at_offset(data) ==
    \E offset \in magic_scan_offsets(data) :
        Slice(data, offset, offset + 8) = HKX_MAGIC_LE

\* parse_alternative_header setting the error whenever no tagfile marker
\* was found, without looking at valid first.
parse_alternative_header_unguarded_error(self, data) ==
    IF is_tagfile(data)
    THEN
      LET end == find(data, <<0>>, 0, 64)
          cvs == decode(Slice(data, 0, end))
          s1 == [self EXCEPT !.valid = TRUE]
          s2 == IF end > 0
                THEN [s1 EXCEPT
                        !.content_version_string = cvs,
                        !.havok_version_str = tagfile_version_str(cvs, @)]
                ELSE s1
      IN  scan_classes(s2, data)
    ELSE
      LET s1 == IF magic_at_offset(data) THEN [self EXCEPT !.valid = TRUE]
                ELSE self
          scanned == scan_classes(s1, data)
          s2 == IF s1.valid THEN s1
                ELSE IF scanned.detected_classes # <<>>
                     THEN [scanned EXCEPT !.valid = TRUE,
                                          !.havok_version_str = headerless]
                ELSE scanned
      IN  [s2 EXCEPT !.error = ErrNoHeader]

\* parse_alternative_header leaving a file without header invalid whatever
\* signatures were found in it.
parse_alternative_header_header_only(self, data) ==
    IF is_tagfile(data)
    THEN
      LET end == find(data, <<0>>, 0, 64)
          cvs == decode(Slice(data, 0, end))
          s1 == [self EXCEPT !.valid = TRUE]
          s2 == IF end > 0
                THEN [s1 EXCEPT
                        !.content_version_string = cvs,
                        !.havok_version_str = tagfile_version_str(cvs, @)]
                ELSE s1
      IN  scan_classes(s2, data)
    ELSE
      LET s1 == IF magic_at_offset(data) THEN [self EXCEPT !.valid = TRUE]
                ELSE self
          s2 == IF s1.valid THEN s1 ELSE scan_classes(s1, data)
      IN  IF s2.valid THEN s2 ELSE [s2 EXCEPT !.error = ErrNoHeader]

\* HKXInfo._parse_alternative_header
parse_alternative_header(self, data) ==
    IF is_tagfile(data)
    THEN
      LET end == find(data, <<0>>, 0, 64)
          cvs == decode(Slice(data, 0, end))
          s1 == [self EXCEPT !.valid = TRUE]
          s2 == IF end > 0
                THEN [s1 EXCEPT
                        !.content_version_string = cvs,
                        !.havok_version_str = tagfile_version_str(cvs, @)]
                ELSE s1
      IN  scan_classes(s2, data)
    ELSE
      LET s1 == IF magic_at_offset(data) THEN [self EXCEPT !.valid = TRUE]
                ELSE self
          scanned == scan_classes(s1, data)
          s2 == IF s1.valid THEN s1
                ELSE IF scanned.detected_classes # <<>>
                     THEN [scanned EXCEPT !.valid = TRUE,
                                          !.havok_version_str = headerless]
                ELSE scanned
      IN  IF s2.valid THEN s2 ELSE [s2 EXCEPT !.error = ErrNoHeader]

\* The alternate offsets probed for a version when 0x0C holds no known one.
VERSION_OFFSETS == <<16, 20, 40, 44>>

\* The offsets probed for the section count.
SECTION_OFFSETS == <<20, 24>>

\* parse_version taking the label from the tag at 0x0C alone: a tag found
\* at an alternate offset is recorded but the label is left unresolved.
parse_version_primary_label(self, data) ==
    LET version_candidate == unpack_I(data, 12)
        hits == {k \in 1..Len(VERSION_OFFSETS) :
                   /\ VERSION_OFFSETS[k] + 4 <= Len(data)
                   /\ is_known_version(unpack_I(data, VERSION_OFFSETS[k]))}
        v == version_key(unpack_I(data, VERSION_OFFSETS[Min(hits)]))
    IN  IF is_known_version(version_candidate)
        THEN [self EXCEPT
                !.havok_version_raw = version_key(version_candidate),
                !.havok_version_str = HAVOK_VERSIONS[version_key(version_candidate)]]
        ELSE IF hits # {}
             THEN [self EXCEPT !.havok_version_raw = v,
                               !.havok_version_str = unknown_hex(version_candidate)]
        ELSE IF self.havok_version_raw = 0
             THEN [self EXCEPT !.havok_version_str = unknown_hex(version_candidate)]
        ELSE self

\* The version lines of _parse: havok_version_raw and havok_version_str.
parse_version(self, data) ==
    LET version_candidate == unpack_I(data, 12)
        hits == {k \in 1..Len(VERSION_OFFSETS) :
                   /\ VERSION_OFFSETS[k] + 4 <= Len(data)
                   /\ is_known_version(unpack_I(data, VERSION_OFFSETS[k]))}
        v == version_key(unpack_I(data, VERSION_OFFSETS[Min(hits)]))
    IN  IF is_known_version(version_candidate)
        THEN [self EXCEPT
                !.havok_version_raw = version_key(version_candidate),
                !.havok_version_str = HAVOK_VERSIONS[version_key(version_candidate)]]
        ELSE IF hits # {}
             THEN [self EXCEPT !.havok_version_raw = v,
                               !.havok_version_str = HAVOK_VERSIONS[v]]
        ELSE IF self.havok_version_raw = 0
             THEN [self EXCEPT !.havok_version_str = unknown_hex(version_candidate)]
        ELSE self

\* plausible_sections with the upper limit included.
plausible_sections_inclusive(v) == v.hi = 0 /\ 0 < v.lo /\ v.lo <= 100

\* if 0 < v < 100
plausible_sections(v) == v.hi = 0 /\ 0 < v.lo /\ v.lo < 100

\* The section-count loop of _parse.
parse_sections(self, data) ==
    LET hits == {k \in 1..Len(SECTION_OFFSETS) :
                   /\ SECTION_OFFSETS[k] + 4 <= Len(data)
                   /\ plausible_sections(unpack_I(data, SECTION_OFFSETS[k]))}
    IN  IF hits = {} THEN self
        ELSE [self EXCEPT
                !.num_sections = unpack_I(data, SECTION_OFFSETS[Min(hits)]).lo]

\* parse_endianness with the conventional reading: a zero byte is little.
parse_endianness_conventional(data) ==
    LET endian_byte == IF Len(data) > 17 THEN data[17 + 1] ELSE 0
    IN  IF endian_byte = 0 THEN "little" ELSE "big"

\* The endianness line of _parse.
parse_endianness(data) ==
    LET endian_byte == IF Len(data) > 17 THEN data[17 + 1] ELSE 0
    IN  IF endian_byte = 0 THEN "big" ELSE "little"

\* parse_standard_header accepting the file only once its version resolved.
parse_standard_header_strict(self, data) ==
    LET s1 == [self EXCEPT !.user_tag = unpack_I(data, 8),
                           !.endianness = parse_endianness(data)]
        s2 == parse_version(s1, data)
        s3 == parse_sections([s2 EXCEPT !.valid = (s2.havok_version_raw # 0)], data)
        s4 == scan_version_string(s3, data)
    IN  scan_classes(s4, data)

\* parse_standard_header running the class scan a second time.
parse_standard_header_rescan(self, data) ==
    LET s1 == [self EXCEPT !.valid = TRUE,
                           !.user_tag = unpack_I(data, 8),
                           !.endianness = parse_endianness(data)]
        s2 == parse_version(s1, data)
        s3 == parse_sections(s2, data)
        s4 == scan_version_string(s3, data)
    IN  scan_classes(scan_classes(s4, data), data)

\* The standard-header part of _parse. Every offset it unpacks lies below
\* MIN_SIZE, so struct.error is never raised and the try block runs through.
parse_standard_header(self, data) ==
    LET s1 == [self EXCEPT !.valid = TRUE,
                           !.user_tag = unpack_I(data, 8),
                           !.endianness = parse_endianness(data)]
        s2 == parse_version(s1, data)
        s3 == parse_sections(s2, data)
        s4 == scan_version_string(s3, data)
    IN  scan_classes(s4, data)

\* read returning the whole file, as f.read() would.
read_whole(f) == Slice(f, 0, Len(f))

\* What f.read(min(self.filesize, 65536)) returns.
read(f) == Slice(f, 0, SmallerOf(Len(f), READ_MAX))

\* parse testing the magic before the size of the sample.
parse_magic_first(self, f, readable) ==
    IF ~readable THEN [self EXCEPT !.error = ErrUnreadable]
    ELSE
      LET data == read(f)
      IN  IF Slice(data, 0, 8) = HKX_MAGIC_LE
          THEN parse_standard_header(self, data)
          ELSE IF Len(data) < MIN_SIZE THEN [self EXCEPT !.error = ErrTooSmall]
          ELSE parse_alternative_header(self, data)

\* parse reading the endianness byte before it looks at the magic.
parse_eager_endianness(self, f, readable) ==
    IF ~readable THEN [self EXCEPT !.error = ErrUnreadable]
    ELSE
      LET data == read(f)
          s1 == [self EXCEPT !.endianness = parse_endianness(data)]
      IN  IF Len(data) < MIN_SIZE THEN [self EXCEPT !.error = ErrTooSmall]
          ELSE IF Slice(data, 0, 8) # HKX_MAGIC_LE
               THEN parse_alternative_header(s1, data)
          ELSE parse_standard_header(s1, data)

\* HKXInfo._parse; readable is false when open() or read() raises.
parse(self, f, readable) ==
    IF ~readable THEN [self EXCEPT !.error = ErrUnreadable]
    ELSE
      LET data == read(f)
      IN  IF Len(data) < MIN_SIZE THEN [self EXCEPT !.error = ErrTooSmall]
          ELSE IF Slice(data, 0, 8) # HKX_MAGIC_LE
               THEN parse_alternative_header(self, data)
          ELSE parse_standard_header(self, data)

(* ---------------------------------------------------------------------- *)
(* Skyrim SE compatibility check                                          *)
(* ---------------------------------------------------------------------- *)

INVALID_ISSUE == "INVALID: File is not a valid HKX file"
VERSION_ISSUE == "VERSION: Elden Ring uses Havok 2018, Skyrim SE uses Havok 2014. Conversion required via hkxcmd or HavokBehaviorPostProcess."
COMPRESSION_ISSUE == "COMPRESSION: Spline-compressed animation data. Soulstruct or custom decompressor needed before retargeting."
ENDIAN_ISSUE == "ENDIAN: Big-endian format detected. Skyrim SE uses little-endian. Byte-swap conversion required."
OK_ISSUE == "OK: No obvious compatibility issues detected (further testing needed)"

\* The test of the version rule.
version_mismatch(label) ==
    \/ Contains(label, Bytes("2018"))
    \/ Contains(label, Bytes("Elden Ring"))

\* The three rules applied to a valid record, in the order of the source.
compatibility_rules(r) ==
    (IF version_mismatch(r.havok_version_str) THEN <<VERSION_ISSUE>> ELSE <<>>)
    \o (IF r.compression_type = "spline" THEN <<COMPRESSION_ISSUE>> ELSE <<>>)
    \o (IF r.endianness = "big" THEN <<ENDIAN_ISSUE>> ELSE <<>>)

\* check_skyrim_compatibility without the return after the INVALID issue.
check_skyrim_compatibility_no_return(r) ==
    LET found == (IF ~r.valid THEN <<INVALID_ISSUE>> ELSE <<>>)
                 \o compatibility_rules(r)
    IN  IF found = <<>> THEN <<OK_ISSUE>> ELSE found

\* check_skyrim_compatibility with the ENDIAN rule before the others.
check_skyrim_compatibility_endian_first(r) ==
    IF ~r.valid THEN <<INVALID_ISSUE>>
    ELSE LET found ==
                 (IF r.endianness = "big" THEN <<ENDIAN_ISSUE>> ELSE <<>>)
                 \o (IF version_mismatch(r.havok_version_str)
                     THEN <<VERSION_ISSUE>> ELSE <<>>)
                 \o (IF r.compression_type = "spline"
                     THEN <<COMPRESSION_ISSUE>> ELSE <<>>)
         IN  IF found = <<>> THEN <<OK_ISSUE>> ELSE found

\* check_skyrim_compatibility appending the OK entry whatever was found.
check_skyrim_compatibility_always_ok(r) ==
    IF ~r.valid THEN <<INVALID_ISSUE>>
    ELSE Append(compatibility_rules(r), OK_ISSUE)

\* check_skyrim_compatibility(info)
check_skyrim_compatibility(r) ==
    IF ~r.valid THEN <<INVALID_ISSUE>>
    ELSE LET found == compatibility_rules(r)
         IN  IF found = <<>> THEN <<OK_ISSUE>> ELSE found

(* ---------------------------------------------------------------------- *)
(* The files analysed                                                     *)
(* ---------------------------------------------------------------------- *)

\* Largest number of patches written into one file.
MaxPatches == 2

\* File sizes: below MIN_SIZE, MIN_SIZE, above it, and above the 256 bytes
\* scanned for a displaced magic.
Sizes == {40, 64, 80, 272}

\* The byte a file is filled with before anything is written into it.
Fills == {0, 65}

P(off, bs) == [off |-> off, bytes |-> bs]

\* Byte runs written into a file, in the order in which they are written.
Catalog ==
    << P(0, Bytes("hk_2018.1.0-r1") \o <<0>>),
       P(0, Bytes("HK_2014.1.0-r1") \o <<0>>),
       P(0, Bytes("hk_")),
       P(0, Bytes("Hk_")),
       P(4, HKX_MAGIC_LE),
       P(6, HKX_MAGIC_LE),
       P(56, HKX_MAGIC_LE),
       P(72, HKX_MAGIC_LE),
       P(252, HKX_MAGIC_LE),
       P(256, HKX_MAGIC_LE),
       P(12, <<0, 0, 0, 11>>),          \* 0x0B000000 at 0x0C
       P(12, <<0, 0, 0, 14>>),          \* 0x0E000000 at 0x0C
       P(12, <<14, 0, 0, 0>>),          \* 0x0000000E at 0x0C
       P(12, <<0, 0, 24, 32>>),         \* 0x20180000 at 0x0C
       P(12, <<239, 205, 171, 137>>),   \* 0x89ABCDEF at 0x0C
       P(16, <<0, 0, 0, 13>>),          \* 0x0D000000 at 0x10
       P(17, <<1>>),                    \* the endianness byte
       P(20, <<0, 0, 0, 16>>),          \* 0x10000000 at 0x14
       P(20, <<5, 0, 0, 0>>),           \* 5 at 0x14
       P(20, <<100, 0, 0, 0>>),         \* 100 at 0x14
       P(20, <<0, 0, 0, 5>>),           \* 0x05000000 at 0x14
       P(24, <<99, 0, 0, 0>>),          \* 99 at 0x18
       P(24, <<1, 0, 1, 0>>),           \* 0x00010001 at 0x18
       P(40, <<0, 0, 0, 11>>),          \* 0x0B000000 at 0x28
       P(44, <<0, 0, 0, 14>>),          \* 0x0E000000 at 0x2C
       P(32, Bytes("Havok-7") \o <<0>>),
       P(48, Bytes("hk_2014.1.0-r1") \o <<0>>),
       P(52, hkaSkeleton),
       P(60, hkaSkeletonMapper),
       P(80, hkaInterleavedUncompressedAnimation),
       P(120, hkaSplineCompressedAnimation),
       P(150, hkaInterleavedUncompressedAnimation),
       P(190, hkaAnimationBinding),
       P(210, hkRootLevelContainer),
       P(230, hkaAnimationContainer) >>

\* f with the bytes of p written at p.off, when they fit into f.
Overlay(f, p) ==
    IF p.off + Len(p.bytes) > Len(f) THEN f
    ELSE SubSeq(f, 1, p.off) \o p.bytes
         \o SubSeq(f, p.off + Len(p.bytes) + 1, Len(f))

\* The increasing sequences of at most n catalog indices.
RECURSIVE PatchChoices(_)
PatchChoices(n) ==
    IF n = 0 THEN {<<>>}
    ELSE LET prev == PatchChoices(n - 1)
             full == {s \in prev : Len(s) = n - 1}
             next(s) == IF s = <<>> THEN 1 ELSE s[Len(s)] + 1
         IN  prev \cup UNION {{Append(s, k) : k \in next(s)..Len(Catalog)} : s \in full}

RECURSIVE Patched(_, _, _)
Patched(f, ps, k) ==
    IF k > Len(ps) THEN f ELSE Patched(Overlay(f, Catalog[ps[k]]), ps, k + 1)

\* A file of the given size: the fill byte, the magic at offset 0 when
\* asked for, then the chosen patches.
Sample(size, fill, magic0, ps) ==
    LET blank == [i \in 1..size |-> fill]
        head == IF magic0 THEN Overlay(blank, P(0, HKX_MAGIC_LE)) ELSE blank
    IN  Patched(head, ps, 1)

RECURSIVE Written(_, _, _)
Written(f, patches, k) ==
    IF k > Len(patches) THEN f
    ELSE Written(Overlay(f, patches[k]), patches, k + 1)

\* A file of the given size and fill with the patches written into it.
Built(size, fill, patches) == Written([i \in 1..size |-> fill], patches, 1)

NoInfo == [valid |-> FALSE, error |-> "no record"]

NoSummary == [total |-> 0]

(* ---------------------------------------------------------------------- *)
(* The analysis of one file                                               *)
(* ---------------------------------------------------------------------- *)

Init ==
    /\ \E size \in Sizes, fill \in Fills, magic0 \in BOOLEAN,
          ps \in PatchChoices(MaxPatches) :
          file = Sample(size, fill, magic0, ps)
    /\ io = "pending"
    /\ info = NoInfo
    /\ pc = "new"
    /\ issues = <<>>
    /\ dir = <<>>
    /\ results = <<>>
    /\ outs = <<>>
    /\ summary = NoSummary

\* HKXInfo(filepath): stat() raises and no record is made, or the record is
\* initialised and _parse fills it in; open()/read() may fail inside _parse.
HKXInfo_init ==
    /\ pc = "new"
    /\ \E outcome \in {"ok", "read_fails", "stat_fails"} :
          /\ io' = outcome
          /\ IF outcome = "stat_fails"
             THEN /\ pc' = "raised"
                  /\ info' = info
             ELSE /\ pc' = "parsed"
                  /\ info' = parse(new_info(Len(file)), file, outcome = "ok")
    /\ UNCHANGED <<file, issues, dir, results, outs, summary>>

\* The call of check_skyrim_compatibility on a record.
CheckCompatibility ==
    /\ pc = "parsed"
    /\ issues' = check_skyrim_compatibility(info)
    /\ pc' = "checked"
    /\ UNCHANGED <<file, io, info, dir, results, outs, summary>>

Next == HKXInfo_init \/ CheckCompatibility

Spec == Init /\ [][Next]_vars

(* ---------------------------------------------------------------------- *)
(* The compatibility check on records of any content                      *)
(* ---------------------------------------------------------------------- *)

\* Version labels a record handed to the check may carry.
Labels ==
    {unknown, headerless, hk2014, hk2016, hk2018, hk2020,
     unknown_hex(Word(0)), unknown_hex(unpack_I(<<0, 0, 24, 32>>, 0))}

\* Records with every combination of the fields the check reads.
AnyRecords ==
    {[new_info(MIN_SIZE) EXCEPT
        !.valid = v,
        !.error = IF v THEN NoError ELSE ErrNoHeader,
        !.havok_version_str = l,
        !.compression_type = c,
        !.endianness = e] :
      v \in BOOLEAN, l \in Labels,
      c \in {"unknown", "spline", "interleaved"},
      e \in {"unknown", "big", "little"}}

AnyRecordInit ==
    /\ file = <<>>
    /\ io = "given"
    /\ info \in AnyRecords
    /\ pc = "parsed"
    /\ issues = <<>>
    /\ dir = <<>>
    /\ results = <<>>
    /\ outs = <<>>
    /\ summary = NoSummary

CompatSpec == AnyRecordInit /\ [][CheckCompatibility]_vars

(* ---------------------------------------------------------------------- *)
(* The analysis of one file with version strings and markers              *)
(* ---------------------------------------------------------------------- *)

\* Byte runs for the tagged-marker path and the version-string scan:
\* tagged strings naming the years, single years written over them, each of
\* the three markers with and without a NUL after it, and lone NUL bytes.
MarkerCatalog ==
    << P(0, Bytes("hk_2018.1.0-r1") \o <<0>>),
       P(0, Bytes("HK_2014.1.0-r1") \o <<0>>),
       P(0, Bytes("hk_2016.1.0-r1") \o <<0>>),
       P(0, Bytes("hk_")),
       P(8, Bytes("2014")),
       P(8, Bytes("2016")),
       P(8, Bytes("2018")),
       P(12, <<0, 0, 0, 14>>),
       P(16, Bytes("hkVersionUtil") \o <<0>>),
       P(32, Bytes("Havok-7") \o <<0>>),
       P(48, Bytes("hk_2014.1.0-r1") \o <<0>>),
       P(64, Bytes("hk_")),
       P(72, Bytes("Havok-")),
       P(100, <<0>>),
       P(140, <<0>>),
       P(200, Bytes("hk_2014.1.0-r1") \o <<0>>),
       P(230, Bytes("hkVersionUtil") \o <<0>>),
       P(52, hkaSkeleton) >>

\* The patches of MarkerCatalog with the given indices.
MarkerPatches(ps) == [k \in 1..Len(ps) |-> MarkerCatalog[ps[k]]]

MarkerInit ==
    /\ \E size \in Sizes, fill \in Fills, magic0 \in BOOLEAN,
          ps \in {qs \in PatchChoices(MaxPatches) :
                    \A k \in 1..Len(qs) : qs[k] <= Len(MarkerCatalog)} :
          file = Built(size, fill,
                       (IF magic0 THEN <<P(0, HKX_MAGIC_LE)>> ELSE <<>>)
                       \o MarkerPatches(ps))
    /\ io = "pending"
    /\ info = NoInfo
    /\ pc = "new"
    /\ issues = <<>>
    /\ dir = <<>>
    /\ results = <<>>
    /\ outs = <<>>
    /\ summary = NoSummary

MarkerSpec == MarkerInit /\ [][Next]_vars

(* ---------------------------------------------------------------------- *)
(* The analysis of a directory                                            *)
(* ---------------------------------------------------------------------- *)

\* Largest number of .hkx files in a directory of small files.
MaxFiles == 2

\* a < b for two strings, by character code.
str_lt(a, b) ==
    \E i \in 1..Len(b) :
        /\ i <= Len(a) + 1
        /\ \A j \in 1..(i - 1) : a[j] = b[j]
        /\ (i = Len(a) + 1 \/ a[i] < b[i])

\* p < q for two paths: Path compares the sequences of path parts.
path_lt(p, q) ==
    \E i \in 1..Len(q) :
        /\ i <= Len(p) + 1
        /\ \A j \in 1..(i - 1) : p[j] = q[j]
        /\ (i = Len(p) + 1 \/ str_lt(p[i], q[i]))

\* sorted(target_path.rglob("*.hkx"))
RECURSIVE sorted(_)
sorted(paths) ==
    IF paths = {} THEN <<>>
    ELSE LET first == CHOOSE p \in paths :
                          \A q \in paths \ {p} : path_lt(p, q)
         IN  <<first>> \o sorted(paths \ {first})

\* The paths of the .hkx files below the directory, each the sequence of
\* its parts: a/c.hkx, a-b.hkx, a.hkx.
Paths ==
    {<<Bytes("a"), Bytes("c.hkx")>>, <<Bytes("a-b.hkx")>>, <<Bytes("a.hkx")>>}

\* The contents of the small files: too small, unrecognised, standard
\* header (resolved and unresolved tag), tagged, headerless, displaced
\* magic.
SmallContents ==
    << Built(40, 0, <<P(0, HKX_MAGIC_LE)>>),
       Built(64, 65, <<>>),
       Built(64, 0, <<P(0, HKX_MAGIC_LE), P(12, <<0, 0, 0, 14>>)>>),
       Built(272, 0, <<P(0, HKX_MAGIC_LE), P(17, <<1>>),
                       P(120, hkaSplineCompressedAnimation)>>),
       Built(64, 0, <<P(0, Bytes("HK_2014.1.0-r1") \o <<0>>)>>),
       Built(80, 0, <<P(52, hkaSkeleton)>>),
       Built(272, 65, <<P(80, hkaInterleavedUncompressedAnimation),
                        P(190, hkaAnimationBinding)>>),
       Built(80, 0, <<P(4, HKX_MAGIC_LE), P(60, hkaSkeletonMapper)>>),
       Built(272, 0, <<P(0, HKX_MAGIC_LE), P(12, <<0, 0, 0, 11>>),
                       P(210, hkRootLevelContainer)>>),
       Built(272, 0, <<P(0, Bytes("hk_2018.1.0-r1") \o <<0>>),
                       P(230, hkaAnimationContainer)>>) >>

\* A file 64 bytes longer than what is read of it, with a standard header
\* and the patches written into it.
Large(patches) ==
    Written(Built(READ_MAX + 64, 0,
                  <<P(0, HKX_MAGIC_LE), P(100, hkRootLevelContainer)>>),
            patches, 1)

\* The contents of the large files, in two pairs that agree on the part
\* that is read: the second file of the first pair has a signature and a
\* version string beyond it; the first file of the second pair has a
\* signature across the end of it, the second only the beginning of that
\* signature.
LargeContents ==
    << Large(<<>>),
       Large(<<P(READ_MAX, hkaSkeleton),
               P(READ_MAX + 32, Bytes("hk_2014.1.0-r1") \o <<0>>)>>),
       Large(<<P(READ_MAX - 6, hkaSkeleton)>>),
       Large(<<P(READ_MAX - 6, Bytes("hkaSke"))>>) >>

\* The contents a file of a directory may have; a directory gives for each
\* path the index of its content.
Contents == SmallContents \o LargeContents

\* The directory of the two files with the contents f and f + 1.
Pair(f) ==
    [p \in {<<Bytes("a-b.hkx")>>, <<Bytes("a.hkx")>>} |->
        IF p = <<Bytes("a.hkx")>> THEN f + 1 ELSE f]

\* The directories analysed: up to MaxFiles small files, or one of the
\* pairs of large files.
Dirs ==
    UNION {[ps -> 1..Len(SmallContents)] :
             ps \in {qs \in SUBSET Paths : Cardinality(qs) <= MaxFiles}}
    \cup {Pair(f) : f \in {Len(SmallContents) + 1, Len(SmallContents) + 3}}

BatchInit ==
    /\ dir \in Dirs
    /\ results = <<>>
    /\ outs = <<>>
    /\ summary = NoSummary
    /\ pc = "loop"
    /\ file = <<>>
    /\ io = "batch"
    /\ info = NoInfo
    /\ issues = <<>>

hkx_files == sorted(DOMAIN dir)

\* The record HKXInfo(filepath) makes of a file whose stat() succeeds.
HKXInfo(filepath, f, readable) ==
    [filepath |-> filepath] @@ parse(new_info(Len(f)), f, readable)

\* AnalyzeFile with detected_classes shared by all records: each record
\* starts from the list of the record before it.
AnalyzeFile_shared_classes ==
    /\ pc = "loop"
    /\ Len(results) < Len(hkx_files)
    /\ LET hkx_file == hkx_files[Len(results) + 1]
           f == Contents[dir[hkx_file]]
           self == [new_info(Len(f)) EXCEPT
                      !.detected_classes =
                          IF results = <<>> THEN <<>>
                          ELSE results[Len(results)].detected_classes]
       IN  \E outcome \in {"ok", "read_fails", "stat_fails"} :
              /\ outs' = Append(outs, outcome)
              /\ IF outcome = "stat_fails"
                 THEN /\ pc' = "aborted"
                      /\ results' = results
                 ELSE /\ pc' = pc
                      /\ results' = Append(results,
                            [filepath |-> hkx_file] @@ parse(self, f, outcome = "ok"))
    /\ UNCHANGED <<dir, summary, file, io, info, issues>>

\* One pass of the loop of analyze_path: info = HKXInfo(hkx_file);
\* results.append(info). An exception of stat() is caught nowhere and ends
\* the run.
AnalyzeFile ==
    /\ pc = "loop"
    /\ Len(results) < Len(hkx_files)
    /\ LET hkx_file == hkx_files[Len(results) + 1]
       IN  \E outcome \in {"ok", "read_fails", "stat_fails"} :
              /\ outs' = Append(outs, outcome)
              /\ IF outcome = "stat_fails"
                 THEN /\ pc' = "aborted"
                      /\ results' = results
                 ELSE /\ pc' = pc
                      /\ results' = Append(results,
                            HKXInfo(hkx_file, Contents[dir[hkx_file]],
                                    outcome = "ok"))
    /\ UNCHANGED <<dir, summary, file, io, info, issues>>

\* dict.get(k, default)
get(d, k, default) == IF k \in DOMAIN d THEN d[k] ELSE default

\* The loop filling compression_counts.
RECURSIVE compression_counts(_)
compression_counts(rs) ==
    IF rs = <<>> THEN <<>>
    ELSE LET r == rs[Len(rs)]
             counts == compression_counts(SubSeq(rs, 1, Len(rs) - 1))
         IN  [k \in DOMAIN counts \cup {r.compression_type} |->
                 IF k = r.compression_type THEN get(counts, k, 0) + 1
                 ELSE counts[k]]

\* version_counts with the records counted whether valid or not.
RECURSIVE version_counts_all(_)
version_counts_all(rs) ==
    IF rs = <<>> THEN <<>>
    ELSE LET r == rs[Len(rs)]
             counts == version_counts_all(SubSeq(rs, 1, Len(rs) - 1))
         IN  [k \in DOMAIN counts \cup {r.havok_version_str} |->
                 IF k = r.havok_version_str THEN get(counts, k, 0) + 1
                 ELSE counts[k]]

\* The loop filling version_counts.
RECURSIVE version_counts(_)
version_counts(rs) ==
    IF rs = <<>> THEN <<>>
    ELSE LET r == rs[Len(rs)]
             counts == version_counts(SubSeq(rs, 1, Len(rs) - 1))
         IN  IF ~r.valid THEN counts
             ELSE [k \in DOMAIN counts \cup {r.havok_version_str} |->
                     IF k = r.havok_version_str THEN get(counts, k, 0) + 1
                     ELSE counts[k]]

\* sum(r.filesize for r in results)
RECURSIVE total_size(_)
total_size(rs) ==
    IF rs = <<>> THEN 0
    ELSE total_size(SubSeq(rs, 1, Len(rs) - 1)) + rs[Len(rs)].filesize

\* The figures print_results computes for its summary.
summarize(rs) ==
    [total |-> Len(rs),
     valid |-> Cardinality({i \in 1..Len(rs) : rs[i].valid}),
     with_anim |-> Cardinality({i \in 1..Len(rs) : rs[i].has_animation}),
     with_skel |-> Cardinality({i \in 1..Len(rs) : rs[i].has_skeleton}),
     with_binding |-> Cardinality({i \in 1..Len(rs) : rs[i].has_binding}),
     compression_counts |-> compression_counts(rs),
     version_counts |-> version_counts(rs),
     total_size |-> total_size(rs)]

\* The end of the loop and print_results, which returns at once when there
\* are no results.
PrintResults ==
    /\ pc = "loop"
    /\ Len(results) = Len(hkx_files)
    /\ summary' = IF results = <<>> THEN NoSummary ELSE summarize(results)
    /\ pc' = "done"
    /\ UNCHANGED <<dir, results, outs, file, io, info, issues>>

BatchNext == AnalyzeFile \/ PrintResults

BatchSpec == BatchInit /\ [][BatchNext]_vars

(* ---------------------------------------------------------------------- *)
(* Properties                                                             *)
(* ---------------------------------------------------------------------- *)

\* The byte sample the analysis worked on.
sample == read(file)

\* The file was read and a record was made from its sample.
Analysed == pc = "parsed" /\ io = "ok"

MagicAt0 == Len(sample) >= 8 /\ \A j \in 1..8 : sample[j] = HKX_MAGIC_LE[j]

MarkerAt0 ==
    /\ Len(sample) >= 3
    /\ sample[1] \in {104, 72}      \* h, H
    /\ sample[2] = sample[1] + 3    \* k, K
    /\ sample[3] = 95               \* _
    
OnStandardPath == Analysed /\ Len(sample) >= 64 /\ MagicAt0

\* The magic starts at a 4-byte-aligned offset below min(256, length).
MagicInScannedPrefix ==
    \E o \in 0..(SmallerOf(256, Len(sample)) - 1) :
        o % 4 = 0 /\ MatchAt(sample, HKX_MAGIC_LE, o)

\* The magic lies wholly inside the first min(256, length) bytes, at a
\* 4-byte-aligned offset.
MagicInsidePrefix ==
    \E o \in 0..(SmallerOf(256, Len(sample)) - 8) :
        o % 4 = 0 /\ MatchAt(sample, HKX_MAGIC_LE, o)

AnySignature ==
    \E k \in 1..Len(ER_CLASSNAME_SIGNATURES) :
        Contains(sample, ER_CLASSNAME_SIGNATURES[k])

\* C1: a sample shorter than 64 bytes gives an invalid record with the
\* too-small error and every other field at its default, whatever it holds.
C1_TooSmall ==
    (Analysed /\ Len(sample) < 64) =>
        /\ ~info.valid
        /\ info.error = ErrTooSmall
        /\ info.endianness = "unknown"
        /\ info.havok_version_raw = 0
        /\ info.havok_version_str = unknown
        /\ info.num_sections = 0
        /\ info.content_version_string = <<>>
        /\ info.detected_classes = <<>>
        /\ ~info.has_animation /\ ~info.has_skeleton /\ ~info.has_binding
        /\ info.compression_type = "unknown"

\* A too-small sample that starts with the magic has been analysed.
C1_Witness == Analysed /\ Len(sample) < 64 /\ MagicAt0 /\ info.error = ErrTooSmall

\* C2: a sample of at least 64 bytes that starts with the magic gives a
\* valid record with no error, whatever its other bytes are.
C2_MagicValid == OnStandardPath => (info.valid /\ info.error = NoError)

\* A record made valid by the magic alone: no version resolved, no
\* signature found.
C2_Witness ==
    /\ OnStandardPath
    /\ info.valid
    /\ info.havok_version_raw = 0
    /\ info.detected_classes = <<>>
    /\ sample[64] = 65

\* C3: on the standard-header path the endianness is big when the byte at
\* offset 0x11 is zero and little otherwise; on every other path it stays
\* unknown.
C3_Endianness ==
    /\ OnStandardPath =>
          info.endianness = (IF sample[18] = 0 THEN "big" ELSE "little")
    /\ (pc = "parsed" /\ ~OnStandardPath) => info.endianness = "unknown"

\* An 80-byte sample with the magic and a zero byte at 0x11 was reported
\* as big-endian.
C3_Witness ==
    /\ OnStandardPath
    /\ Len(sample) = 80
    /\ sample[18] = 0
    /\ info.endianness = "big"

\* The string before the first NUL among the first 64 bytes contains 2018.
TaggedString2018 ==
    \E e \in 1..63 :
        /\ sample[e + 1] = 0
        /\ \A k \in 1..e : sample[k] # 0
        /\ \E i \in 1..(e - 3) :
              /\ sample[i] = 50 /\ sample[i + 1] = 48      \* 2 0
              /\ sample[i + 2] = 49 /\ sample[i + 3] = 56  \* 1 8

\* C4: a sample of at least 64 bytes starting with hk_ or HK_ gives a
\* valid record, labelled hk2018 when its NUL-terminated string contains
\* 2018.
C4_Tagged ==
    (Analysed /\ Len(sample) >= 64 /\ MarkerAt0) =>
        /\ info.valid
        /\ TaggedString2018 => info.havok_version_str = hk2018

\* A tagged sample whose string names 2018 was labelled hk2018.
C4_Witness ==
    /\ Analysed /\ Len(sample) >= 64 /\ MarkerAt0
    /\ TaggedString2018
    /\ info.havok_version_str = hk2018

\* C5: a sample of at least 64 bytes with no magic at offset 0, no marker,
\* no magic at an aligned offset of the scanned prefix and no signature
\* gives an invalid record with the no-header error.
C5_NothingFound ==
    (/\ Analysed /\ Len(sample) >= 64
     /\ ~MagicAt0 /\ ~MarkerAt0 /\ ~MagicInScannedPrefix /\ ~AnySignature) =>
        (~info.valid /\ info.error = ErrNoHeader)

\* A sample that holds the magic only at an offset that is not scanned
\* (unaligned, or at byte 256) was rejected.
C5_Witness ==
    /\ Analysed /\ ~info.valid /\ info.error = ErrNoHeader
    /\ ~MagicInScannedPrefix
    /\ Contains(sample, HKX_MAGIC_LE)

\* C6: a sample of at least 64 bytes without magic or marker at offset 0
\* that holds the magic at an aligned offset, wholly inside its first
\* min(256, length) bytes, gives a valid record.
C6_DisplacedMagic ==
    (/\ Analysed /\ Len(sample) >= 64
     /\ ~MagicAt0 /\ ~MarkerAt0 /\ MagicInsidePrefix) => info.valid

\* C7: without magic at offset 0, marker or magic found by the scan, a
\* sample holding a signature gives a valid record with the headerless
\* label, no error and raw version 0, and has-skeleton when hkaSkeleton is
\* among the signatures.
C7_SignatureOnly ==
    (/\ Analysed /\ Len(sample) >= 64
     /\ ~MagicAt0 /\ ~MarkerAt0 /\ ~magic_at_offset(sample) /\ AnySignature) =>
        /\ info.valid
        /\ info.havok_version_str = headerless
        /\ info.error = NoError
        /\ info.havok_version_raw = 0
        /\ Contains(sample, hkaSkeleton) => info.has_skeleton

\* A headerless sample holding hkaSkeleton was accepted.
C7_Witness ==
    /\ Analysed /\ Len(sample) >= 64
    /\ ~MagicAt0 /\ ~MarkerAt0 /\ ~magic_at_offset(sample)
    /\ Contains(sample, hkaSkeleton)
    /\ info.valid /\ info.has_skeleton
    /\ info.havok_version_str = headerless

\* C8: an invalid record has its error set and every header-derived field
\* at its default.
C8_InvalidDefaults ==
    (pc = "parsed" /\ ~info.valid) =>
        /\ info.error # NoError
        /\ info.endianness = "unknown"
        /\ info.havok_version_raw = 0
        /\ info.havok_version_str = unknown
        /\ info.content_version_string = <<>>
        /\ info.num_sections = 0
        /\ info.compression_type = "unknown"

\* A sample carrying header fields and a version string, but no header,
\* was rejected.
C8_Witness ==
    /\ Analysed /\ ~info.valid /\ info.error = ErrNoHeader
    /\ Contains(sample, Bytes("Havok-"))
    /\ sample[18] # 0

\* The four bytes at offset off are the little-endian form of a key of
\* HAVOK_VERSIONS.
KeyBytesAt(off) ==
    /\ sample[off + 1] = 0 /\ sample[off + 2] = 0 /\ sample[off + 3] = 0
    /\ sample[off + 4] \in {11, 13, 14, 16}

KeyAt(off) == sample[off + 4] * 16777216

HexChars == "0123456789ABCDEF"

ByteHex(b) == <<Ord(HexChars, (b \div 16) + 1), Ord(HexChars, (b % 16) + 1)>>

\* C9: the version is the key at 0x0C if there is one, else the first key
\* at 0x10, 0x14, 0x28, 0x2C, all read little-endian; with no key the raw
\* tag is 0 and the label shows the value at 0x0C in hexadecimal.
C9_VersionProbes ==
    OnStandardPath =>
        LET first(off) ==
                /\ info.havok_version_raw = KeyAt(off)
                /\ info.havok_version_str = HAVOK_VERSIONS[KeyAt(off)]
        IN  IF KeyBytesAt(12) THEN first(12)
            ELSE IF KeyBytesAt(16) THEN first(16)
            ELSE IF KeyBytesAt(20) THEN first(20)
            ELSE IF KeyBytesAt(40) THEN first(40)
            ELSE IF KeyBytesAt(44) THEN first(44)
            ELSE /\ info.havok_version_raw = 0
                 /\ info.havok_version_str =
                       Bytes("unknown (0x") \o ByteHex(sample[16])
                         \o ByteHex(sample[15]) \o ByteHex(sample[14])
                         \o ByteHex(sample[13]) \o Bytes(")")

\* With keys at 0x14 and 0x2C and none before, the one at 0x14 was taken.
C9_Witness ==
    /\ OnStandardPath
    /\ ~KeyBytesAt(12) /\ ~KeyBytesAt(16) /\ KeyBytesAt(20) /\ KeyBytesAt(44)
    /\ KeyAt(20) # KeyAt(44)
    /\ info.havok_version_raw = KeyAt(20)

\* The four bytes at offset off are a little-endian value in 1..99.
CountBytesAt(off) ==
    /\ sample[off + 1] > 0 /\ sample[off + 1] < 100
    /\ sample[off + 2] = 0 /\ sample[off + 3] = 0 /\ sample[off + 4] = 0

\* C10: the section count is the value at 0x14 if it is in 1..99, else the
\* value at 0x18 if that is in 1..99, else 0; it is in 0..99 for every
\* record.
C10_SectionCount ==
    /\ OnStandardPath =>
          info.num_sections =
              (IF CountBytesAt(20) THEN sample[21]
               ELSE IF CountBytesAt(24) THEN sample[25]
               ELSE 0)
    /\ pc = "parsed" => info.num_sections \in 0..99

\* The value 100 at 0x14 was passed over for the 99 at 0x18.
C10_Witness ==
    /\ OnStandardPath
    /\ sample[21] = 100 /\ sample[22] = 0 /\ sample[23] = 0 /\ sample[24] = 0
    /\ CountBytesAt(24)
    /\ info.num_sections = 99

\* A record exists, checked for compatibility or not.
Recorded == pc \in {"parsed", "checked"} /\ io # "given"

InList(name) ==
    \E k \in 1..Len(info.detected_classes) : info.detected_classes[k] = name

\* The type name, given as its character codes, has part as a substring.
HasPart(name, part) ==
    \E i \in 0..(Len(name) - Len(part)) :
        \A j \in 1..Len(part) : name[i + j] = part[j]

\* C11: a record whose detected-class list holds a type name containing
\* Binding has has-binding set.
C11_Binding ==
    (Recorded /\ \E k \in 1..Len(info.detected_classes) :
                    HasPart(info.detected_classes[k], Bytes("Binding")))
        => info.has_binding

\* C12: has-animation is set exactly when the detected-class list holds a
\* name containing Animation and not Container.
C12_Animation ==
    Recorded =>
        (info.has_animation <=>
            \E k \in 1..Len(info.detected_classes) :
                /\ HasPart(info.detected_classes[k], Bytes("Animation"))
                /\ ~HasPart(info.detected_classes[k], Bytes("Container")))

\* Only hkaAnimationContainer was detected and has-animation stayed false.
C12_Witness ==
    /\ Analysed
    /\ info.detected_classes = <<hkaAnimationContainer>>
    /\ ~info.has_animation

\* C13: has-skeleton is set exactly when the detected-class list holds
\* hkaSkeleton.
C13_Skeleton == Recorded => (info.has_skeleton <=> InList(hkaSkeleton))

\* hkaSkeleton was detected, here together with hkaSkeletonMapper.
C13_Witness ==
    /\ Analysed
    /\ InList(hkaSkeleton) /\ InList(hkaSkeletonMapper)
    /\ info.has_skeleton

\* The class scan ran on the sample: every path but the one that stops at
\* a displaced magic.
Scanned ==
    /\ Analysed /\ Len(sample) >= 64
    /\ (MagicAt0 \/ MarkerAt0 \/ ~magic_at_offset(sample))

\* C14: on a scanned sample the compression is interleaved when the
\* Interleaved signature is present, else spline when the Spline signature
\* is present, else unknown, wherever the signatures lie.
C14_Compression ==
    Scanned =>
        info.compression_type =
            (IF Contains(sample, hkaInterleavedUncompressedAnimation)
             THEN "interleaved"
             ELSE IF Contains(sample, hkaSplineCompressedAnimation)
                  THEN "spline"
             ELSE "unknown")

\* The Spline signature lies after the Interleaved one in the file and the
\* compression is interleaved.
C14_Witness ==
    /\ Scanned
    /\ MatchAt(sample, hkaInterleavedUncompressedAnimation, 80)
    /\ MatchAt(sample, hkaSplineCompressedAnimation, 120)
    /\ info.compression_type = "interleaved"

\* C15: in a valid record every signature that occurs in the sample is in
\* the detected-class list, on every path.
C15_AllDetected ==
    (Analysed /\ info.valid) =>
        \A k \in 1..Len(ER_CLASSNAME_SIGNATURES) :
            Contains(sample, ER_CLASSNAME_SIGNATURES[k])
                => InList(ER_CLASSNAME_SIGNATURES[k])

\* The place of a detected class in the signature list.
SignatureIndex(name) ==
    CHOOSE k \in 1..Len(ER_CLASSNAME_SIGNATURES) : ER_CLASSNAME_SIGNATURES[k] = name

\* C16: the detected-class list holds only signatures that occur in the
\* sample, in the order of the signature list and without duplicates.
C16_ListOrder ==
    Recorded =>
        /\ \A i \in 1..Len(info.detected_classes) :
              /\ \E k \in 1..Len(ER_CLASSNAME_SIGNATURES) :
                    info.detected_classes[i] = ER_CLASSNAME_SIGNATURES[k]
              /\ Contains(sample, info.detected_classes[i])
        /\ \A i, j \in 1..Len(info.detected_classes) :
              i < j => SignatureIndex(info.detected_classes[i])
                         < SignatureIndex(info.detected_classes[j])

\* hkaSkeleton lies before the Spline signature in the file and after it in
\* the list.
C16_Witness ==
    /\ Analysed
    /\ MatchAt(sample, hkaSkeleton, 52)
    /\ MatchAt(sample, hkaSplineCompressedAnimation, 120)
    /\ info.detected_classes = <<hkaSplineCompressedAnimation, hkaSkeleton>>

Checked == pc = "checked"

IssueIn(i) == \E k \in 1..Len(issues) : issues[k] = i

\* C17: for an invalid record the check returns the INVALID issue alone,
\* whatever the label, compression and endianness of the record.
C17_InvalidOnly == (Checked /\ ~info.valid) => issues = <<INVALID_ISSUE>>

\* An invalid record carrying the hk2018 label, spline compression and big
\* endianness got the INVALID issue alone.
C17_Witness ==
    /\ Checked /\ ~info.valid
    /\ info.havok_version_str = hk2018
    /\ info.compression_type = "spline"
    /\ info.endianness = "big"
    /\ issues = <<INVALID_ISSUE>>

\* C18: a valid record gets the VERSION issue exactly when its label is
\* that of the hk2018 family.
C18_VersionIssue ==
    (Checked /\ info.valid) =>
        (IssueIn(VERSION_ISSUE) <=> info.havok_version_str = hk2018)

\* The lists the three rules can produce.
RuleLists ==
    {<<VERSION_ISSUE>>, <<COMPRESSION_ISSUE>>, <<ENDIAN_ISSUE>>,
     <<VERSION_ISSUE, COMPRESSION_ISSUE>>, <<VERSION_ISSUE, ENDIAN_ISSUE>>,
     <<COMPRESSION_ISSUE, ENDIAN_ISSUE>>,
     <<VERSION_ISSUE, COMPRESSION_ISSUE, ENDIAN_ISSUE>>}

\* C19: a valid record gets COMPRESSION exactly when its compression is
\* spline and ENDIAN exactly when its endianness is big; what fires is
\* listed in the order VERSION, COMPRESSION, ENDIAN, each once.
C19_Rules ==
    (Checked /\ info.valid) =>
        /\ IssueIn(COMPRESSION_ISSUE) <=> info.compression_type = "spline"
        /\ IssueIn(ENDIAN_ISSUE) <=> info.endianness = "big"
        /\ issues \in RuleLists \cup {<<OK_ISSUE>>}

\* All three rules fired for one analysed file.
C19_Witness ==
    /\ Checked /\ info.valid /\ io = "ok"
    /\ issues = <<VERSION_ISSUE, COMPRESSION_ISSUE, ENDIAN_ISSUE>>

\* C20: the check never returns an empty list; a valid record gets the OK
\* entry exactly when no rule fired, and the OK entry stands alone.
C20_OkEntry ==
    Checked =>
        /\ issues # <<>>
        /\ IssueIn(OK_ISSUE) => issues = <<OK_ISSUE>>
        /\ info.valid =>
              (IssueIn(OK_ISSUE) <=>
                  /\ ~IssueIn(VERSION_ISSUE)
                  /\ info.compression_type # "spline"
                  /\ info.endianness # "big")

\* A valid headerless record with nothing to report got the OK entry.
C20_Witness ==
    /\ Checked /\ info.valid /\ io = "ok"
    /\ info.havok_version_str = headerless
    /\ issues = <<OK_ISSUE>>

\* The string before the first NUL among the first 64 bytes contains the
\* digits d.
TaggedHas(d) ==
    \E e \in 1..63 :
        /\ sample[e + 1] = 0
        /\ \A k \in 1..e : sample[k] # 0
        /\ \E i \in 0..(e - Len(d)) : \A j \in 1..Len(d) : sample[i + j] = d[j]

NoNulInFirst64 == \A k \in 1..64 : sample[k] # 0

OnTaggedPath == Analysed /\ Len(sample) >= 64 /\ MarkerAt0

Digits2014 == Bytes("2014")
Digits2016 == Bytes("2016")
Digits2018 == Bytes("2018")
Label2014 == Bytes("hk2014 (Skyrim SE)")
Label2016 == Bytes("hk2016")
Label2018 == Bytes("hk2018 (Elden Ring / DS3)")
LabelUnknown == Bytes("unknown")

\* C24: on the tagged-marker path the label follows the priority 2018,
\* 2014, 2016 over the extracted string and stays unknown when the string
\* names none of them; with no NUL in the first 64 bytes no string is
\* extracted and the label stays unknown, the record being valid.
C24_TaggedPriority ==
    OnTaggedPath =>
        /\ info.valid
        /\ TaggedHas(Digits2018) => info.havok_version_str = Label2018
        /\ (TaggedHas(Digits2014) /\ ~TaggedHas(Digits2018)) =>
              info.havok_version_str = Label2014
        /\ (/\ TaggedHas(Digits2016)
            /\ ~TaggedHas(Digits2014)
            /\ ~TaggedHas(Digits2018)) =>
              info.havok_version_str = Label2016
        /\ (/\ ~TaggedHas(Digits2016)
            /\ ~TaggedHas(Digits2014)
            /\ ~TaggedHas(Digits2018)) =>
              info.havok_version_str = LabelUnknown
        /\ NoNulInFirst64 => info.content_version_string = <<>>

\* A tagged string naming both 2014 and 2018 was labelled hk2018.
C24_Witness ==
    /\ OnTaggedPath
    /\ TaggedHas(Digits2014)
    /\ TaggedHas(Digits2018)
    /\ info.havok_version_str = Label2018

\* The offset of the first occurrence of pat in the sample; -1 when none.
FirstOccurrence(pat) ==
    LET at == {o \in 0..(Len(sample) - Len(pat)) : MatchAt(sample, pat, o)}
    IN  IF at = {} THEN -1 ELSE Min(at)

\* The offsets of the NUL bytes among the 64 bytes from offset o on.
NulsFrom(o) ==
    {e \in o..(SmallerOf(o + 64, Len(sample)) - 1) : sample[e + 1] = 0}

\* The run from offset o up to the first NUL within 64 bytes; the empty
\* string when there is no such NUL.
RunAt(o) ==
    IF NulsFrom(o) = {} THEN <<>>
    ELSE decode([i \in 1..(Min(NulsFrom(o)) - o) |-> sample[o + i]])

\* The markers that occur in the sample, as indices of the marker list.
MarkersFound ==
    {k \in 1..Len(VERSION_PATTERNS) : FirstOccurrence(VERSION_PATTERNS[k]) >= 0}

\* The markers whose first occurrence is followed by a NUL within 64 bytes.
MarkersTerminated ==
    {k \in MarkersFound : NulsFrom(FirstOccurrence(VERSION_PATTERNS[k])) # {}}

\* C25 as stated: on the standard-header path the scan stops at the first
\* marker of the list that occurs in the sample; the string is the
\* NUL-terminated run at that marker's first occurrence and no later
\* marker is used.
C25_FirstMarkerStops ==
    OnStandardPath =>
        info.content_version_string =
            (IF MarkersFound = {} THEN <<>>
             ELSE RunAt(FirstOccurrence(VERSION_PATTERNS[Min(MarkersFound)])))

\* C25 amended: on the standard-header path the string is the
\* NUL-terminated run at the first occurrence of the first marker of the
\* list whose first occurrence has a NUL within 64 bytes; a marker that
\* occurs without such a NUL is passed over and the next marker is tried.
C25_FirstTerminatedMarker ==
    OnStandardPath =>
        info.content_version_string =
            (IF MarkersTerminated = {} THEN <<>>
             ELSE RunAt(FirstOccurrence(VERSION_PATTERNS[Min(MarkersTerminated)])))

\* hk_ occurs without a NUL within 64 bytes and the string was taken at a
\* later marker of the list.
C25_Witness ==
    /\ OnStandardPath
    /\ 1 \in MarkersFound
    /\ 1 \notin MarkersTerminated
    /\ MarkersTerminated # {}
    /\ info.content_version_string # <<>>

\* C27: every record made by the analysis is valid exactly when its error
\* is unset.
C27_ValidIffNoError == Recorded => (info.valid <=> info.error = NoError)

\* A record made valid by a signature alone carries no error.
C27_Witness ==
    /\ Recorded
    /\ io = "ok"
    /\ ~MagicAt0 /\ ~MarkerAt0
    /\ info.valid
    /\ info.havok_version_str = headerless
    /\ info.error = NoError

SkeletonName == Bytes("hkaSkeleton")
MapperName == Bytes("hkaSkeletonMapper")

\* C29: a record whose detected-class list holds hkaSkeletonMapper also
\* holds hkaSkeleton and has has-skeleton set.
C29_MapperImpliesSkeleton ==
    (Recorded /\ InList(MapperName)) =>
        /\ InList(SkeletonName)
        /\ info.has_skeleton

\* The sample names hkaSkeleton only as the beginning of hkaSkeletonMapper
\* and was reported as having a skeleton.
C29_Witness ==
    /\ Recorded
    /\ io = "ok"
    /\ \E o \in 0..(Len(sample) - 17) : MatchAt(sample, MapperName, o)
    /\ \A o \in 0..(Len(sample) - 11) :
          MatchAt(sample, SkeletonName, o) => MatchAt(sample, MapperName, o)
    /\ InList(MapperName)
    /\ info.has_skeleton

UnknownHexPrefix == Bytes("unknown (0x")

\* The label has the shape unknown (0x........) with eight upper-case
\* hexadecimal digits.
IsUnknownHex(label) ==
    /\ Len(label) = 20
    /\ SubSeq(label, 1, 11) = UnknownHexPrefix
    /\ \A i \in 12..19 : label[i] \in (48..57) \cup (65..70)
    /\ label[20] = 41

\* The entries of the version table, written out.
TableLabels ==
    (184549376 :> Bytes("hk2014 (Skyrim SE)")) @@
    (218103808 :> Bytes("hk2016")) @@
    (234881024 :> Bytes("hk2018 (Elden Ring / DS3)")) @@
    (268435456 :> Bytes("hk2020"))

\* The labels a record without a tag may carry, the hexadecimal one apart.
UntaggedLabels ==
    {Bytes("unknown"),
     Bytes("unknown (headerless, classes detected)"),
     Bytes("hk2018 (Elden Ring / DS3)"),
     Bytes("hk2014 (Skyrim SE)"),
     Bytes("hk2016")}

\* C30: the raw version tag of a record is 0 or a key of the version
\* table; a non-zero tag occurs on the standard-header path only and the
\* label is then the table entry of the tag; with a zero tag the label is
\* unknown, unknown (0x........), the headerless label or one of the
\* labels resolved from a tagged string.
C30_RawTag ==
    Recorded =>
        /\ info.havok_version_raw \in
              {0, 184549376, 218103808, 234881024, 268435456}
        /\ info.havok_version_raw # 0 =>
              /\ io = "ok" /\ Len(sample) >= 64 /\ MagicAt0
              /\ info.havok_version_str = TableLabels[info.havok_version_raw]
        /\ info.havok_version_raw = 0 =>
              \/ info.havok_version_str \in UntaggedLabels
              \/ IsUnknownHex(info.havok_version_str)

\* A tag found at the alternate offset 0x10, the field at 0x0C holding no
\* table key, was recorded with its table label.
C30_Witness ==
    /\ Recorded
    /\ io = "ok"
    /\ ~KeyBytesAt(12)
    /\ info.havok_version_raw = 218103808
    /\ info.havok_version_str = TableLabels[218103808]

\* The sum of the values of a frequency table.
RECURSIVE SumOf(_, _)
SumOf(table, keys) ==
    IF keys = {} THEN 0
    ELSE LET k == CHOOSE k \in keys : TRUE
         IN  table[k] + SumOf(table, keys \ {k})

\* The sum of the sizes of the records with the given indices.
RECURSIVE SizeOf(_)
SizeOf(indices) ==
    IF indices = {} THEN 0
    ELSE LET i == CHOOSE i \in indices : TRUE
         IN  results[i].filesize + SizeOf(indices \ {i})

Summarized == pc = "done" /\ results # <<>>

Invalid == {i \in 1..Len(results) : ~results[i].valid}

\* C21: in the summary of N records of which K are invalid the valid count
\* is N - K, the version table sums to N - K, the compression table sums
\* to N and the total size is the sum of the records' sizes.
C21_Summary ==
    Summarized =>
        /\ summary.valid = Len(results) - Cardinality(Invalid)
        /\ SumOf(summary.version_counts, DOMAIN summary.version_counts)
              = Len(results) - Cardinality(Invalid)
        /\ SumOf(summary.compression_counts, DOMAIN summary.compression_counts)
              = Len(results)
        /\ summary.total_size = SizeOf(1..Len(results))

\* A summary of two records, one valid and one not, of different
\* compression.
C21_Witness ==
    /\ Summarized
    /\ Len(results) = 2
    /\ Cardinality(Invalid) = 1
    /\ Cardinality(DOMAIN summary.compression_counts) = 2
    /\ Cardinality(DOMAIN summary.version_counts) = 1

\* C22: the analysis of a directory is never ended by a single file;
\* whatever the filesystem operations on the files do, it finishes with
\* one record for every file found, in the order of the paths, and a file
\* that could not be read has an invalid record with its error and size.
C22_NeverAborts ==
    /\ pc # "aborted"
    /\ pc = "done" =>
          /\ Len(results) = Cardinality(DOMAIN dir)
          /\ \A i \in 1..Len(results) :
                /\ results[i].filepath \in DOMAIN dir
                /\ \A j \in (i + 1)..Len(results) :
                      path_lt(results[i].filepath, results[j].filepath)
                /\ outs[i] = "read_fails" =>
                      /\ ~results[i].valid
                      /\ results[i].error # NoError
                      /\ results[i].filesize
                            = Len(Contents[dir[results[i].filepath]])

FileOf(i) == Contents[dir[results[i].filepath]]

\* The files of two records have the same size and agree on their first
\* 65536 bytes.
AgreeOnPrefix(i, j) ==
    /\ Len(FileOf(i)) = Len(FileOf(j))
    /\ \A k \in 1..SmallerOf(Len(FileOf(i)), 65536) : FileOf(i)[k] = FileOf(j)[k]

\* The signature occurs in the file of the i-th record, at or after the
\* offset from and ending before the offset to.
SignatureWithin(i, sig, from, to) ==
    \E o \in from..(to - Len(sig)) : MatchAt(FileOf(i), sig, o)

\* C26: two files of equal size that agree on their first 65536 bytes and
\* were read give records equal in every field but the path, and every
\* signature detected lies wholly within the first 65536 bytes of its file.
C26_BoundedRead ==
    /\ \A i, j \in 1..Len(results) :
          (AgreeOnPrefix(i, j) /\ outs[i] = "ok" /\ outs[j] = "ok") =>
              [results[i] EXCEPT !.filepath = <<>>]
                  = [results[j] EXCEPT !.filepath = <<>>]
    /\ \A i \in 1..Len(results) :
          \A c \in 1..Len(results[i].detected_classes) :
              SignatureWithin(i, results[i].detected_classes[c], 0,
                              SmallerOf(Len(FileOf(i)), 65536))

\* Two files that differ beyond byte 65536 only gave equal records, one of
\* them holding hkaSkeleton beyond that byte.
C26_Witness ==
    /\ Len(results) = 2
    /\ outs = <<"ok", "ok">>
    /\ FileOf(1) # FileOf(2)
    /\ AgreeOnPrefix(1, 2)
    /\ \E i \in 1..2 :
          SignatureWithin(i, SkeletonName, 65536, Len(FileOf(i)))
    /\ \A i \in 1..2 : ~results[i].has_skeleton
    /\ [results[1] EXCEPT !.filepath = <<>>] = [results[2] EXCEPT !.filepath = <<>>]

\* C28: a record with a non-empty detected-class list, a flag set or a
\* compression other than unknown is valid, and the animation, skeleton
\* and binding counts of a summary are each at most its valid count.
C28_EvidenceImpliesValid ==
    /\ \A i \in 1..Len(results) :
          (\/ results[i].detected_classes # <<>>
           \/ results[i].has_animation
           \/ results[i].has_skeleton
           \/ results[i].has_binding
           \/ results[i].compression_type # "unknown") => results[i].valid
    /\ Summarized =>
          /\ summary.with_anim <= summary.valid
          /\ summary.with_skel <= summary.valid
          /\ summary.with_binding <= summary.valid

\* A summary with an invalid record and a record made valid by the
\* signatures found in it, which counts as an animation.
C28_Witness ==
    /\ Summarized
    /\ Invalid # {}
    /\ \E i \in 1..Len(results) :
          /\ results[i].havok_version_str = headerless
          /\ results[i].has_animation
    /\ summary.with_anim >= 1

=============================================================================
